---- MODULE Spec2Model ----
(***************************************************************************)
(* Model of the load-test orchestration scripts.                           *)
(*                                                                         *)
(* Part I   JitsiLoadTestOrchestrator (src/unnamed/part_000): the          *)
(*          incremental campaign, its SIGINT handler and its cleanup.      *)
(* Part II  SeleniumOrchestrator (src/orchestrator/index.ts) on top of     *)
(*          DigitalOceanManager (src/unnamed/part_001).                    *)
(*                                                                         *)
(* An action is one atomic segment of the JavaScript event loop: the       *)
(* completion of the awaited external operation together with the code     *)
(* that runs up to the next await.  The SIGINT handler is a second async   *)
(* flow whose segments interleave with those of the main flow.             *)
(***************************************************************************)
EXTENDS Integers, Sequences, FiniteSets, TLC

\* ------------------------------------------------------------ bounds
\* Largest number of test steps explored (caps campaigns whose loop does
\* not end by itself).
MaxSteps == 4
\* Largest number of interrupt signals delivered to one process.
MaxInterrupts == 1

\* ------------------------------------------------- program constants
\* Math.min(3, this.requiredNodes)
InitialNodeCap == 3
\* errors.slice(0, 5)
MaxDiagnostics == 5
\* the droplet name "jitsi-hub"; worker i is named "jitsi-node-i" (name i)
HubName == 0

\* timeout 400 <test command>, in ms
CutRunMs == 400000
\* 1000 * 60 * 60
MsPerHour == 3600000
\* the hourly rate 0.071, in thousandths
RateMilli == 71

\* ------------------------------------------------------ input domains
\* sampled durations of an executor call that is refused at once, and of one
\* that runs long
RefusedMs == 1000
LongRunMs == 1500000

\* parseInt(env) || default: any non-zero integer can be configured.
IncrementSteps == {-1, 1, 5}
MaxParticipantsValues == {2, 4}
ParticipantsPerNodeValues == {-2, 1, 2}

Configs ==
  [incrementStep : IncrementSteps,
   maxParticipants : MaxParticipantsValues,
   participantsPerNode : ParticipantsPerNodeValues,
   autoCleanup : BOOLEAN,
   envOk : BOOLEAN]

\* What executeRemoteScript can hand back to runSingleTest: it throws, or it
\* returns an output with/without "BUILD SUCCESS", with/without "FAILURES",
\* and with some number of lines matching /ERROR.*|FAILED.*/.  ms is the time
\* the call took (Date.now() - startTime): a connection that is refused at
\* once, a run cut by the 400 s timeout of the test script, a run that
\* lasts long.
ExecOutcomes ==
  { [threw |-> TRUE,  buildSuccess |-> FALSE, failures |-> FALSE, errLines |-> 0, ms |-> RefusedMs],
    [threw |-> FALSE, buildSuccess |-> TRUE,  failures |-> FALSE, errLines |-> 0, ms |-> LongRunMs],
    [threw |-> FALSE, buildSuccess |-> TRUE,  failures |-> TRUE,  errLines |-> 2, ms |-> LongRunMs],
    [threw |-> FALSE, buildSuccess |-> FALSE, failures |-> FALSE, errLines |-> 1, ms |-> LongRunMs],
    [threw |-> FALSE, buildSuccess |-> FALSE, failures |-> TRUE,  errLines |-> 1, ms |-> CutRunMs],
    [threw |-> FALSE, buildSuccess |-> FALSE, failures |-> TRUE,  errLines |-> 6, ms |-> CutRunMs] }

VARIABLES
  cfg,            \* this.config (with the validated environment)
  pc,             \* the await the main flow is suspended on
  requiredNodes,  \* this.requiredNodes
  hubIp,          \* this.hubIp has been set
  nodes,          \* this.nodes: the names of the registered workers, in order
  provI,          \* i of provisionInfrastructure / index of setupInfrastructure
  currentNodes,   \* currentNodes of runIncrementalTests
  participants,   \* participants of runIncrementalTests
  addCount,       \* count of addNodes
  startIndex,     \* startIndex of addNodes
  addI,           \* i of addNodes
  testResults,    \* this.testResults
  testsInvoked,   \* history: for each runSingleTest call, its load, the registry
                  \* size at the call and whether the executor threw
  reportWritten,  \* fs.writeFile(reportPath, ...) has completed
  report,         \* the content of the report file
  fatal,          \* kind of the error caught by runCompleteTest ("none" if none)
  mc,             \* the cleanup() call of runCompleteTest
  handlers,       \* the SIGINT handler invocations
  interrupts,     \* number of SIGINTs delivered
  cloud,          \* droplets that exist at the provider
  exited,         \* process.exit has been called
  exitCode        \* its argument

VARIABLES
  apiKey,         \* process.env.DO_API_KEY is set
  spc,            \* the await main()/run() is suspended on
  hubContainerId, \* this.hubContainerId is set
  servers,        \* DigitalOceanManager.servers: id -> [ip, status] (ip "" is FALSE)
  tasks,          \* the provisionAndSetupNode promises of provisionInitialServers
  droplets,       \* ids of the droplets that exist at the provider
  cleanups,       \* SeleniumOrchestrator.cleanup() calls: 0 by main(), k by SIGINT k
  sInterrupts,    \* number of SIGINTs delivered
  sExited,        \* the process has ended
  sExitCode,      \* with this code
  lastCommand     \* the last runCommandOnServer call: its id, what the registry
                  \* held for it, and how the call went on

svars == <<apiKey, spc, hubContainerId, servers, tasks, droplets, cleanups,
           sInterrupts, sExited, sExitCode, lastCommand>>

jvars == <<cfg, pc, requiredNodes, hubIp, nodes, provI, currentNodes,
           participants, addCount, startIndex, addI, testResults, testsInvoked,
           reportWritten, report, fatal, mc, handlers, interrupts, cloud, exited,
           exitCode>>

\* ------------------------------------------------------ pure helpers
Min(a, b) == IF a < b THEN a ELSE b

FloorDiv(a, b) == IF b > 0 THEN a \div b ELSE (-a) \div (-b)

\* Math.ceil(a / b) on integers, b # 0
CeilDiv(a, b) == IF b > 0 THEN -((-a) \div b) ELSE -(a \div (-b))

FirstLinesUncapped(k, n) == [i \in 1..k |-> i]

\* first n elements of 1..k as the sequence <<1, ..., Min(n, k)>>
FirstLines(k, n) == [i \in 1..Min(k, n) |-> i]

Max(a, b) == IF a > b THEN a ELSE b

CaughtResultNoMessage(p) == [participants |-> p, success |-> FALSE, errors |-> <<>>]

\* catch (error) { result.errors.push(error.message); result.success = false }
CaughtResult(p) == [participants |-> p, success |-> FALSE, errors |-> <<0>>]

\* the entry runSingleTest returns for one executor outcome.  A diagnostic is
\* 0 for the caught error.message and i for the i-th matched output line.
TryResultKeepingLines(p, o) ==
  IF o.threw
    THEN CaughtResult(p)
    ELSE [participants |-> p,
          success |-> o.buildSuccess \/ ~o.failures,
          errors |-> FirstLines(o.errLines, MaxDiagnostics)]

\* the try block of runSingleTest and its catch
TryResult(p, o) ==
  IF o.threw
    THEN CaughtResult(p)
    ELSE LET ok == o.buildSuccess \/ ~o.failures
         IN  [participants |-> p,
              success |-> ok,
              errors |-> IF ok THEN <<>> ELSE FirstLines(o.errLines, MaxDiagnostics)]

\* result.duration = Date.now() - startTime; return result
SingleTestResult(p, o) ==
  LET r == TryResult(p, o)
  IN  [participants |-> r.participants, success |-> r.success,
       errors |-> r.errors, duration |-> o.ms]

\* ------------------------------------------------------ generateFinalReport
\* A value that can be null: [present |-> FALSE] is null.
Null == [present |-> FALSE, value |-> 0]
Some(v) == [present |-> TRUE, value |-> v]

\* `x || null`: a falsy number (0) becomes null as well
OrNull(x) == IF x.present /\ x.value # 0 THEN x ELSE Null

SetMax(S) == CHOOSE x \in S : \A y \in S : y <= x

MaxLoad(results) == SetMax({results[i].participants : i \in 1..Len(results)} \cup {0})

\* this.testResults.filter((r) => r.success).map((r) => r.participants)
SuccessfulLoads(results) ==
  {results[i].participants : i \in {j \in 1..Len(results) : results[j].success}}

\* Math.max(...successfulLoads, 0)
MaxSuccess(results) == SetMax(SuccessfulLoads(results) \cup {0})

FindSucceeded(results) ==
  LET done == {i \in 1..Len(results) : results[i].success}
  IN  IF done = {}
        THEN Null
        ELSE Some(results[CHOOSE i \in done : \A j \in done : i <= j].participants)

\* this.testResults.find((r) => !r.success)?.participants
FindFailed(results) ==
  LET failed == {i \in 1..Len(results) : ~results[i].success}
  IN  IF failed = {}
        THEN Null
        ELSE Some(results[CHOOSE i \in failed : \A j \in failed : i <= j].participants)

\* const breakingPoint = find(...)?.participants || null
BreakingPoint(results) == OrNull(FindFailed(results))

SuccessCount(results) == Cardinality({i \in 1..Len(results) : results[i].success})

\* ((successCount / length) * 100).toFixed(1): the string "NaN" for 0 / 0,
\* otherwise the percentage rounded to tenths (kept as a number of tenths)
SuccessRate(results) ==
  IF Len(results) = 0
    THEN [nan |-> TRUE, tenths |-> 0]
    ELSE [nan |-> FALSE,
          tenths |-> (2000 * SuccessCount(results) + Len(results))
                       \div (2 * Len(results))]

RecommendedCapacityRoundedUp(maxSuccess) == CeilDiv(maxSuccess * 4, 5)

\* Math.floor(maxSuccess * 0.8), maxSuccess >= 0
RecommendedCapacity(maxSuccess) == (maxSuccess * 4) \div 5

\* this.testResults.reduce((sum, r) => sum + r.duration, 0)
RECURSIVE TotalDuration(_)
TotalDuration(results) ==
  IF results = <<>> THEN 0
  ELSE TotalDuration(SubSeq(results, 1, Len(results) - 1)) + results[Len(results)].duration

CalculateCostWorkersOnly(results, registry) ==
  [nodeMs |-> Len(registry) * Max(TotalDuration(results), MsPerHour),
   rateMilli |-> RateMilli]

\* calculateCost: (nodes.length + 1) * Math.max(hours, 1) * 0.071, kept exact
\* as node-milliseconds and the rate: the cost is
\* nodeMs / MsPerHour * rateMilli / 1000 dollars
CalculateCost(results, registry) ==
  [nodeMs |-> (Len(registry) + 1) * Max(TotalDuration(results), MsPerHour),
   rateMilli |-> RateMilli]

\* the report object of generateFinalReport; a summary field is a number or
\* null
FinalReport(results, registry) ==
  [maxSuccessfulParticipants |-> Some(MaxSuccess(results)),
   breakingPoint |-> BreakingPoint(results),
   totalTests |-> Len(results),
   successRate |-> SuccessRate(results),
   estimatedCost |-> CalculateCost(results, registry),
   recommendedCapacity |-> Some(RecommendedCapacity(MaxSuccess(results))),
   detailedResults |-> results,
   nodes |-> registry]

NoReport == FinalReport(<<>>, <<>>)

\* ------------------------------------------------------ cleanup()
\* A cleanup() call in progress: the allDroplets snapshot, the index of the
\* delete it is awaiting, and whether an error escaped it.
\* `gone` counts the deletes tried on a droplet that no longer existed.
NoCleanup == [snap |-> <<>>, idx |-> 1, raised |-> FALSE, gone |-> 0]

\* const allDroplets = [{ name: "jitsi-hub" }, ...this.nodes]
StartCleanup(registry) ==
  [snap |-> <<HubName>> \o registry, idx |-> 1, raised |-> FALSE, gone |-> 0]

CleanupRunning(c) == ~c.raised /\ c.idx <= Len(c.snap)
CleanupComplete(c) == ~c.raised /\ c.snap # <<>> /\ c.idx > Len(c.snap)

\* names for which this cleanup() has issued a delete
Issued(c) == {c.snap[i] : i \in 1..Min(c.idx, Len(c.snap))}

CleanupAfterDeleteNoCatch(c, ok, existed) ==
  IF ok
    THEN [c EXCEPT !.idx = @ + 1]
    ELSE [c EXCEPT !.raised = TRUE, !.gone = IF existed THEN @ ELSE @ + 1]

\* try { await execAsync(delete) } catch { log }: both outcomes go on to the
\* next droplet.
CleanupAfterDelete(c, ok, existed) ==
  [c EXCEPT !.idx = @ + 1,
            !.gone = IF existed THEN @ ELSE @ + 1]

\* doctl compute droplet delete: succeeds only for a droplet that exists
DeleteOutcomes(name) == IF name \in cloud THEN BOOLEAN ELSE {FALSE}
CloudAfterDelete(name, ok) == IF ok THEN cloud \ {name} ELSE cloud

\* ------------------------------------------------------ initial state
JStart ==
  /\ pc = "start"
  /\ requiredNodes = 0
  /\ hubIp = FALSE
  /\ nodes = <<>>
  /\ provI = 0
  /\ currentNodes = 0
  /\ participants = 0
  /\ addCount = 0
  /\ startIndex = 0
  /\ addI = 0
  /\ testResults = <<>>
  /\ testsInvoked = <<>>
  /\ reportWritten = FALSE
  /\ report = NoReport
  /\ fatal = "none"
  /\ mc = NoCleanup
  /\ handlers = [k \in 1..MaxInterrupts |-> [state |-> "idle", c |-> NoCleanup]]
  /\ interrupts = 0
  /\ cloud = {}
  /\ exited = FALSE
  /\ exitCode = 0

JInit == cfg \in Configs /\ JStart

\* process.exit(code)
Exit(code) ==
  /\ exited' = TRUE
  /\ exitCode' = code
  /\ pc' = "exited"

\* catch (error) of runCompleteTest followed by .catch of the startup code
Abort(kind) ==
  /\ fatal' = kind
  /\ IF cfg.autoCleanup
       THEN /\ pc' = "cleanup"
            /\ mc' = StartCleanup(nodes)
            /\ UNCHANGED <<exited, exitCode>>
       ELSE /\ Exit(1)
            /\ UNCHANGED mc

\* ------------------------------------------------------ main flow
\* environment validation, constructor, handler registration
Startup ==
  /\ pc = "start" /\ ~exited
  /\ IF cfg.envOk
       THEN pc' = "calc" /\ UNCHANGED <<fatal, exited, exitCode>>
       ELSE fatal' = "config" /\ Exit(1)
  /\ UNCHANGED <<cfg, report, requiredNodes, hubIp, nodes, provI, currentNodes,
                 participants, addCount, startIndex, addI, testResults,
                 testsInvoked, reportWritten, mc, handlers, interrupts, cloud>>
  /\ UNCHANGED svars

CalculateInfrastructure ==
  /\ pc = "calc" /\ ~exited
  /\ requiredNodes' = CeilDiv(cfg.maxParticipants, cfg.participantsPerNode)
  /\ pc' = "createHub"
  /\ UNCHANGED <<cfg, report, hubIp, nodes, provI, currentNodes, participants, addCount,
                 startIndex, addI, testResults, testsInvoked, reportWritten,
                 fatal, mc, handlers, interrupts, cloud, exited, exitCode>>
  /\ UNCHANGED svars

\* provisionInfrastructure: createDroplet("jitsi-hub") returns or throws
ProvisionHub ==
  /\ pc = "createHub" /\ ~exited
  /\ \E ok \in BOOLEAN :
       IF ok
         THEN /\ hubIp' = TRUE
              /\ cloud' = cloud \cup {HubName}
              /\ IF Min(InitialNodeCap, requiredNodes) >= 1
                   THEN pc' = "createNode" /\ provI' = 1
                   ELSE pc' = "setupHub" /\ provI' = 0
              /\ UNCHANGED <<fatal, mc, exited, exitCode>>
         ELSE /\ Abort("provision")
              /\ UNCHANGED <<hubIp, cloud, provI>>
  /\ UNCHANGED <<cfg, report, requiredNodes, nodes, currentNodes, participants, addCount,
                 startIndex, addI, testResults, testsInvoked, reportWritten,
                 handlers, interrupts>>
  /\ UNCHANGED svars

\* provisionInfrastructure: createDroplet(`jitsi-node-${i}`) returns or throws
ProvisionNode ==
  /\ pc = "createNode" /\ ~exited
  /\ \E ok \in BOOLEAN :
       IF ok
         THEN /\ nodes' = Append(nodes, provI)
              /\ cloud' = cloud \cup {provI}
              /\ IF provI + 1 <= Min(InitialNodeCap, requiredNodes)
                   THEN pc' = "createNode" /\ provI' = provI + 1
                   ELSE pc' = "setupHub" /\ provI' = 0
              /\ UNCHANGED <<fatal, mc, exited, exitCode>>
         ELSE /\ Abort("provision")
              /\ UNCHANGED <<nodes, cloud, provI>>
  /\ UNCHANGED <<cfg, report, requiredNodes, hubIp, currentNodes, participants, addCount,
                 startIndex, addI, testResults, testsInvoked, reportWritten,
                 handlers, interrupts>>
  /\ UNCHANGED svars

\* setupInfrastructure: setupHub (after the 60 s sleep)
SetupHub ==
  /\ pc = "setupHub" /\ ~exited
  /\ \E ok \in BOOLEAN :
       IF ok
         THEN /\ IF Len(nodes) >= 1
                   THEN pc' = "setupNode" /\ provI' = 1
                   ELSE pc' = "setupTorture" /\ provI' = 0
              /\ UNCHANGED <<fatal, mc, exited, exitCode>>
         ELSE /\ Abort("setup")
              /\ UNCHANGED provI
  /\ UNCHANGED <<cfg, report, requiredNodes, hubIp, nodes, currentNodes, participants,
                 addCount, startIndex, addI, testResults, testsInvoked,
                 reportWritten, handlers, interrupts, cloud>>
  /\ UNCHANGED svars

\* setupInfrastructure: for (const node of this.nodes) await this.setupNode(node)
SetupNode ==
  /\ pc = "setupNode" /\ ~exited
  /\ \E ok \in BOOLEAN :
       IF ok
         THEN /\ IF provI + 1 <= Len(nodes)
                   THEN pc' = "setupNode" /\ provI' = provI + 1
                   ELSE pc' = "setupTorture" /\ provI' = 0
              /\ UNCHANGED <<fatal, mc, exited, exitCode>>
         ELSE /\ Abort("setup")
              /\ UNCHANGED provI
  /\ UNCHANGED <<cfg, report, requiredNodes, hubIp, nodes, currentNodes, participants,
                 addCount, startIndex, addI, testResults, testsInvoked,
                 reportWritten, handlers, interrupts, cloud>>
  /\ UNCHANGED svars

\* setupInfrastructure: setupTorture; then runIncrementalTests starts
SetupTorture ==
  /\ pc = "setupTorture" /\ ~exited
  /\ \E ok \in BOOLEAN :
       IF ok
         THEN /\ currentNodes' = Len(nodes)
              /\ participants' = cfg.incrementStep
              /\ pc' = "loop"
              /\ UNCHANGED <<fatal, mc, exited, exitCode>>
         ELSE /\ Abort("setup")
              /\ UNCHANGED <<currentNodes, participants>>
  /\ UNCHANGED <<cfg, report, requiredNodes, hubIp, nodes, provI, addCount, startIndex,
                 addI, testResults, testsInvoked, reportWritten, handlers,
                 interrupts, cloud>>
  /\ UNCHANGED svars

\* requiredNodes of one loop iteration
StepRequiredNodes(load) == CeilDiv(load, cfg.participantsPerNode)

NeedsScalingOffByOne(required, current) == required > current + 1

\* if (requiredNodes > currentNodes)
NeedsScaling(required, current) == required > current

LoopContinuesStrict(load) == load < cfg.maxParticipants

\* participants <= this.config.maxParticipants
LoopContinues(load) == load <= cfg.maxParticipants

StartIndexAtCount(registry) == Len(registry)

\* const startIndex = this.nodes.length + 1
StartIndex(registry) == Len(registry) + 1

AddCountFromZero(required, current) == required

\* this.addNodes(requiredNodes - currentNodes)
AddCount(required, current) == required - current

\* runIncrementalTests: loop condition and scaling decision
LoopHead ==
  /\ pc = "loop" /\ ~exited
  /\ LoopContinues(participants) => Len(testResults) < MaxSteps
  /\ IF LoopContinues(participants)
       THEN IF NeedsScaling(StepRequiredNodes(participants), currentNodes)
              THEN /\ addCount' = AddCount(StepRequiredNodes(participants), currentNodes)
                   /\ startIndex' = StartIndex(nodes)
                   /\ addI' = 0
                   /\ pc' = "addCreate"
              ELSE /\ pc' = "test"
                   /\ UNCHANGED <<addCount, startIndex, addI>>
       ELSE /\ pc' = "report"
            /\ UNCHANGED <<addCount, startIndex, addI>>
  /\ UNCHANGED <<cfg, report, requiredNodes, hubIp, nodes, provI, currentNodes,
                 participants, testResults, testsInvoked, reportWritten, fatal,
                 mc, handlers, interrupts, cloud, exited, exitCode>>
  /\ UNCHANGED svars

\* addNodes: createDroplet(`jitsi-node-${nodeIndex}`) returns or throws
AddNodesCreate ==
  /\ pc = "addCreate" /\ ~exited
  /\ \E ok \in BOOLEAN :
       IF ok
         THEN /\ nodes' = Append(nodes, startIndex + addI)
              /\ cloud' = cloud \cup {startIndex + addI}
              /\ pc' = "addSetup"
              /\ UNCHANGED <<fatal, mc, exited, exitCode>>
         ELSE /\ Abort("provision")
              /\ UNCHANGED <<nodes, cloud>>
  /\ UNCHANGED <<cfg, report, requiredNodes, hubIp, provI, currentNodes, participants,
                 addCount, startIndex, addI, testResults, testsInvoked,
                 reportWritten, handlers, interrupts>>
  /\ UNCHANGED svars

MoreToAddSkippingLast(i, count) == i + 1 < count

\* for (let i = 0; i < count; i++)
MoreToAdd(i, count) == i < count

\* addNodes: setupNode(newNode) after the 45 s sleep; on the last one
\* runIncrementalTests sets currentNodes = requiredNodes
AddNodesSetup ==
  /\ pc = "addSetup" /\ ~exited
  /\ \E ok \in BOOLEAN :
       IF ok
         THEN /\ addI' = addI + 1
              /\ IF MoreToAdd(addI + 1, addCount)
                   THEN pc' = "addCreate" /\ UNCHANGED currentNodes
                   ELSE /\ pc' = "test"
                        /\ currentNodes' = StepRequiredNodes(participants)
              /\ UNCHANGED <<fatal, mc, exited, exitCode>>
         ELSE /\ Abort("setup")
              /\ UNCHANGED <<addI, currentNodes>>
  /\ UNCHANGED <<cfg, report, requiredNodes, hubIp, nodes, provI, participants, addCount,
                 startIndex, testResults, testsInvoked, reportWritten, handlers,
                 interrupts, cloud>>
  /\ UNCHANGED svars

StopAfterMissingBreak(result) == FALSE

\* if (!result.success) break
StopAfter(result) == ~result.success

\* runIncrementalTests: runSingleTest(participants) returns; push; break or
\* cool down and advance
RunSingleTest ==
  /\ pc = "test" /\ ~exited
  /\ \E o \in ExecOutcomes :
       LET result == SingleTestResult(participants, o)
       IN  /\ testResults' = Append(testResults, result)
           /\ testsInvoked' = Append(testsInvoked,
                                     [load |-> participants, registered |-> Len(nodes),
                                      threw |-> o.threw])
           /\ IF StopAfter(result)
                THEN pc' = "report" /\ UNCHANGED participants
                ELSE /\ pc' = "loop"
                     /\ participants' = participants + cfg.incrementStep
  /\ UNCHANGED <<cfg, report, requiredNodes, hubIp, nodes, provI, currentNodes, addCount,
                 startIndex, addI, reportWritten, fatal, mc, handlers, interrupts,
                 cloud, exited, exitCode>>
  /\ UNCHANGED svars

GenerateFinalReportDraining ==
  /\ pc = "report" /\ ~exited
  /\ reportWritten' = TRUE
  /\ report' = FinalReport(testResults, nodes)
  /\ testResults' = <<>>
  /\ Exit(0)
  /\ UNCHANGED <<cfg, requiredNodes, hubIp, nodes, provI, currentNodes,
                 participants, addCount, startIndex, addI, testsInvoked, fatal,
                 mc, handlers, interrupts, cloud>>
  /\ UNCHANGED svars

\* generateFinalReport: fs.writeFile returns or throws; then step 6 of
\* runCompleteTest and .then of the startup code
GenerateFinalReport ==
  /\ pc = "report" /\ ~exited
  /\ \E ok \in BOOLEAN :
       IF ok
         THEN /\ reportWritten' = TRUE
              /\ report' = FinalReport(testResults, nodes)
              /\ IF cfg.autoCleanup
                   THEN /\ pc' = "cleanup"
                        /\ mc' = StartCleanup(nodes)
                        /\ UNCHANGED <<exited, exitCode>>
                   ELSE /\ Exit(0)
                        /\ UNCHANGED mc
              /\ UNCHANGED fatal
         ELSE /\ Abort("report")
              /\ UNCHANGED <<reportWritten, report>>
  /\ UNCHANGED <<cfg, requiredNodes, hubIp, nodes, provI, currentNodes,
                 participants, addCount, startIndex, addI, testResults,
                 testsInvoked, handlers, interrupts, cloud>>
  /\ UNCHANGED svars

\* cleanup() called by runCompleteTest: one delete returns or throws; after the
\* last one the promise of runCompleteTest settles and the process exits
Cleanup ==
  /\ pc = "cleanup" /\ ~exited
  /\ CleanupRunning(mc)
  /\ \E ok \in DeleteOutcomes(mc.snap[mc.idx]) :
       /\ mc' = CleanupAfterDelete(mc, ok, mc.snap[mc.idx] \in cloud)
       /\ cloud' = CloudAfterDelete(mc.snap[mc.idx], ok)
       /\ IF CleanupRunning(mc')
            THEN UNCHANGED <<pc, exited, exitCode>>
            ELSE Exit(IF fatal = "none" /\ ~mc'.raised THEN 0 ELSE 1)
  /\ UNCHANGED <<cfg, report, requiredNodes, hubIp, nodes, provI, currentNodes,
                 participants, addCount, startIndex, addI, testResults,
                 testsInvoked, reportWritten, fatal, handlers, interrupts>>
  /\ UNCHANGED svars

\* ------------------------------------------------------ SIGINT handler
\* process.on("SIGINT", ...): the signal arrives
Sigint(k) ==
  /\ ~exited /\ pc # "start"
  /\ k = interrupts + 1
  /\ interrupts' = k
  /\ IF cfg.autoCleanup
       THEN /\ handlers' = [handlers EXCEPT ![k] =
                              [state |-> "cleaning", c |-> StartCleanup(nodes)]]
            /\ UNCHANGED <<pc, exited, exitCode>>
       ELSE /\ handlers' = [handlers EXCEPT ![k].state = "done"]
            /\ Exit(0)
  /\ UNCHANGED <<cfg, report, requiredNodes, hubIp, nodes, provI, currentNodes,
                 participants, addCount, startIndex, addI, testResults,
                 testsInvoked, reportWritten, fatal, mc, cloud>>
  /\ UNCHANGED svars

\* the handler's cleanup(): one delete returns or throws; after the last one
\* process.exit(0)
SigintCleanup(k) ==
  /\ ~exited
  /\ handlers[k].state = "cleaning"
  /\ LET c == handlers[k].c
     IN  \E ok \in DeleteOutcomes(c.snap[c.idx]) :
           LET c2 == CleanupAfterDelete(c, ok, c.snap[c.idx] \in cloud)
           IN  /\ cloud' = CloudAfterDelete(c.snap[c.idx], ok)
               /\ IF CleanupRunning(c2)
                    THEN /\ handlers' = [handlers EXCEPT ![k].c = c2]
                         /\ UNCHANGED <<pc, exited, exitCode>>
                    ELSE /\ handlers' = [handlers EXCEPT ![k] =
                                           [state |-> "done", c |-> c2]]
                         /\ Exit(IF c2.raised THEN 1 ELSE 0)
  /\ UNCHANGED <<cfg, report, requiredNodes, hubIp, nodes, provI, currentNodes,
                 participants, addCount, startIndex, addI, testResults,
                 testsInvoked, reportWritten, fatal, mc, interrupts>>
  /\ UNCHANGED svars

Next ==
  \/ Startup
  \/ CalculateInfrastructure
  \/ ProvisionHub
  \/ ProvisionNode
  \/ SetupHub
  \/ SetupNode
  \/ SetupTorture
  \/ LoopHead
  \/ AddNodesCreate
  \/ AddNodesSetup
  \/ RunSingleTest
  \/ GenerateFinalReport
  \/ Cleanup
  \/ \E k \in 1..MaxInterrupts : Sigint(k)
  \/ \E k \in 1..MaxInterrupts : SigintCleanup(k)

\* ====================================================================
\* Part II: SeleniumOrchestrator over DigitalOceanManager
\* ====================================================================

\* provisionInitialServers(2)
InitialServers == 2
\* waitForServerReady(serverId, timeoutMs = 300000)
TimeoutMs == 300000
\* setTimeout(resolve, 10000)
PollIntervalMs == 10000

ServerIds == 1..InitialServers

NoServers == [id \in {} |-> [ip |-> FALSE, status |-> "creating"]]

\* this.servers.set(id, info)
ServersSet(reg, id, info) == [i \in (DOMAIN reg) \cup {id} |-> IF i = id THEN info ELSE reg[i]]
\* this.servers.delete(id)
ServersDelete(reg, id) == [i \in (DOMAIN reg) \ {id} |-> reg[i]]

\* a SeleniumOrchestrator.cleanup() call: its stage and, during
\* cleanupAllServers, the ids whose shutdownServer promise is unsettled and
\* the ids whose shutdownServer promise rejected
IdleCleanup == [stage |-> "idle", pending |-> {}, failed |-> {}]

\* cleanup() up to its first await
BeginCleanup ==
  IF hubContainerId
    THEN [stage |-> "hub", pending |-> {}, failed |-> {}]
    ELSE IF DOMAIN servers = {}
           THEN [stage |-> "network", pending |-> {}, failed |-> {}]
           ELSE [stage |-> "servers", pending |-> DOMAIN servers, failed |-> {}]

\* no runCommandOnServer call has been made
NoCommand == [id |-> 0, registered |-> FALSE, ip |-> FALSE, outcome |-> "none"]

SInit ==
  /\ apiKey \in BOOLEAN
  /\ lastCommand = NoCommand
  /\ spc = "init"
  /\ hubContainerId = FALSE
  /\ servers = NoServers
  /\ tasks = [w \in ServerIds |-> [st |-> "idle", elapsed |-> 0]]
  /\ droplets = {}
  /\ cleanups = [k \in 0..MaxInterrupts |-> IdleCleanup]
  /\ sInterrupts = 0
  /\ sExited = FALSE
  /\ sExitCode = 0

\* process.exit(code), or the event loop running empty
SExit(code) ==
  /\ sExited' = TRUE
  /\ sExitCode' = code
  /\ spc' = "exited"

\* catch (error) of main(): await orchestrator.cleanup(); process.exit(1)
MainCatch ==
  /\ spc' = "cleanup"
  /\ cleanups' = [cleanups EXCEPT ![0] = BeginCleanup]
  /\ UNCHANGED <<sExited, sExitCode>>

\* main(): new SeleniumOrchestrator(); global.orchestrator = orchestrator
Construct ==
  /\ spc = "init" /\ ~sExited
  /\ IF apiKey
       THEN spc' = "startHub" /\ UNCHANGED <<sExited, sExitCode>>
       ELSE SExit(1)
  /\ UNCHANGED <<lastCommand, apiKey, hubContainerId, servers, tasks, droplets, cleanups,
                 sInterrupts>>
  /\ UNCHANGED jvars

\* run(): startHub() returns or throws; on return provisionInitialServers
\* issues every provisionAndSetupNode
StartHub ==
  /\ spc = "startHub" /\ ~sExited
  /\ \E ok \in BOOLEAN :
       IF ok
         THEN /\ hubContainerId' = TRUE
              /\ tasks' = [w \in ServerIds |-> [st |-> "create", elapsed |-> 0]]
              /\ spc' = "provision"
              /\ UNCHANGED <<cleanups, sExited, sExitCode>>
         ELSE /\ MainCatch
              /\ UNCHANGED <<hubContainerId, tasks>>
  /\ UNCHANGED <<lastCommand, apiKey, servers, droplets, sInterrupts>>
  /\ UNCHANGED jvars

\* provisionServer: client.droplets.create returns or throws
ProvisionServer(w) ==
  /\ spc = "provision" /\ ~sExited
  /\ tasks[w].st = "create"
  /\ \E ok \in BOOLEAN :
       IF ok
         THEN /\ servers' = ServersSet(servers, w, [ip |-> FALSE, status |-> "creating"])
              /\ droplets' = droplets \cup {w}
              /\ tasks' = [tasks EXCEPT ![w].st = "poll"]
         ELSE /\ tasks' = [tasks EXCEPT ![w].st = "failed"]
              /\ UNCHANGED <<servers, droplets>>
  /\ UNCHANGED <<lastCommand, apiKey, spc, hubContainerId, cleanups, sInterrupts, sExited, sExitCode>>
  /\ UNCHANGED jvars

\* what client.droplets.getById can answer for droplet id
PollOutcomes(id) == IF id \in droplets THEN {"active", "pending", "error"} ELSE {"error"}

ServersAfterReadyNoAddress(reg, id) ==
  IF id \in DOMAIN reg
    THEN ServersSet(reg, id, [ip |-> FALSE, status |-> "active"])
    ELSE reg

\* the registry after waitForServerReady saw the droplet active with a public ip
ServersAfterReady(reg, id) ==
  IF id \in DOMAIN reg
    THEN ServersSet(reg, id, [ip |-> TRUE, status |-> "active"])
    ELSE reg

WaitContinuesOnePoll(elapsed) == elapsed < PollIntervalMs

\* while (Date.now() - startTime < timeoutMs)
WaitContinues(elapsed) == elapsed < TimeoutMs

\* waitForServerReady: one getById answer, then return, retry after the
\* interval, or throw the timeout error
WaitForServerReady(w) ==
  /\ spc = "provision" /\ ~sExited
  /\ tasks[w].st = "poll"
  /\ \E o \in PollOutcomes(w) :
       IF o = "active"
         THEN /\ servers' = ServersAfterReady(servers, w)
              /\ tasks' = [tasks EXCEPT ![w].st = "ready"]
         ELSE /\ tasks' = [tasks EXCEPT ![w] =
                             [st |-> IF WaitContinues(tasks[w].elapsed + PollIntervalMs)
                                       THEN "poll" ELSE "failed",
                              elapsed |-> tasks[w].elapsed + PollIntervalMs]]
              /\ UNCHANGED servers
  /\ UNCHANGED <<lastCommand, apiKey, spc, hubContainerId, droplets, cleanups, sInterrupts,
                 sExited, sExitCode>>
  /\ UNCHANGED jvars

\* await Promise.allSettled(provisionPromises): every promise has settled
AllSettled(ts) == \A w \in ServerIds : ts[w].st \in {"ready", "failed"}

\* provisionInitialServers returns; run() sleeps 30 s, checks the grid status
\* and calls runTest
ProvisionInitialServersDone ==
  /\ spc = "provision" /\ ~sExited
  /\ AllSettled(tasks)
  /\ spc' = "runTest"
  /\ UNCHANGED <<lastCommand, apiKey, hubContainerId, servers, tasks, droplets, cleanups,
                 sInterrupts, sExited, sExitCode>>
  /\ UNCHANGED jvars

\* runTest: testSonacoveOnboarding returns a result or throws
RunTest ==
  /\ spc = "runTest" /\ ~sExited
  /\ \E threw \in BOOLEAN :
       IF threw
         THEN MainCatch
         ELSE spc' = "complete" /\ UNCHANGED <<cleanups, sExited, sExitCode>>
  /\ UNCHANGED <<lastCommand, apiKey, hubContainerId, servers, tasks, droplets, sInterrupts>>
  /\ UNCHANGED jvars

\* main() has returned and no handler is at work: the process ends with code 0
EventLoopEmpty ==
  /\ spc = "complete" /\ ~sExited
  /\ \A k \in 1..MaxInterrupts : cleanups[k].stage \in {"idle", "done"}
  /\ SExit(0)
  /\ UNCHANGED <<lastCommand, apiKey, hubContainerId, servers, tasks, droplets, cleanups,
                 sInterrupts>>
  /\ UNCHANGED jvars

\* cleanup() k has completed: main() exits with 1, the SIGINT handler with 0
CleanupDone(k) == IF k = 0 THEN SExit(1) ELSE SExit(0)

\* cleanup(): docker stop / docker rm of the hub returns or throws (caught);
\* cleanupAllServers then starts a shutdownServer for every registered id
CleanupHub(k) ==
  /\ ~sExited
  /\ cleanups[k].stage = "hub"
  /\ cleanups' = [cleanups EXCEPT ![k] =
                    IF DOMAIN servers = {}
                      THEN [stage |-> "network", pending |-> {}, failed |-> {}]
                      ELSE [stage |-> "servers", pending |-> DOMAIN servers, failed |-> {}]]
  /\ UNCHANGED <<lastCommand, apiKey, spc, hubContainerId, servers, tasks, droplets,
                 sInterrupts, sExited, sExitCode>>
  /\ UNCHANGED jvars

\* client.droplets.deleteById: succeeds only for a droplet that exists
DeleteByIdOutcomes(id) == IF id \in droplets THEN BOOLEAN ELSE {FALSE}

\* shutdownServer: the registry after deleteById returned (ok) or threw
ServersAfterShutdown(reg, id, ok) == IF ok THEN ServersDelete(reg, id) ELSE reg

\* cleanupAllServers: one shutdownServer(id) settles; its rejection is caught
\* and logged; Promise.all resolves when the last one has settled
ShutdownServer(k, id) ==
  /\ ~sExited
  /\ cleanups[k].stage = "servers"
  /\ id \in cleanups[k].pending
  /\ \E ok \in DeleteByIdOutcomes(id) :
       /\ servers' = ServersAfterShutdown(servers, id, ok)
       /\ droplets' = IF ok THEN droplets \ {id} ELSE droplets
       /\ cleanups' = [cleanups EXCEPT ![k] =
                         [stage |-> IF cleanups[k].pending = {id}
                                      THEN "network" ELSE "servers",
                          pending |-> cleanups[k].pending \ {id},
                          failed |-> IF ok THEN cleanups[k].failed
                                           ELSE cleanups[k].failed \cup {id}]]
  /\ UNCHANGED <<lastCommand, apiKey, spc, hubContainerId, tasks, sInterrupts, sExited, sExitCode>>
  /\ UNCHANGED jvars

\* cleanup(): docker network rm returns or throws (caught); cleanup returns
CleanupNetwork(k) ==
  /\ ~sExited
  /\ cleanups[k].stage = "network"
  /\ cleanups' = [cleanups EXCEPT ![k] = [cleanups[k] EXCEPT !.stage = "done"]]
  /\ CleanupDone(k)
  /\ UNCHANGED <<lastCommand, apiKey, hubContainerId, servers, tasks, droplets, sInterrupts>>
  /\ UNCHANGED jvars

\* process.on("SIGINT", ...): if (global.orchestrator) await cleanup()
SeleniumSigint(k) ==
  /\ ~sExited /\ spc # "init"
  /\ k = sInterrupts + 1
  /\ sInterrupts' = k
  /\ cleanups' = [cleanups EXCEPT ![k] = BeginCleanup]
  /\ UNCHANGED <<lastCommand, apiKey, spc, hubContainerId, servers, tasks, droplets, sExited,
                 sExitCode>>
  /\ UNCHANGED jvars

SeleniumNext ==
  \/ Construct
  \/ StartHub
  \/ \E w \in ServerIds : ProvisionServer(w)
  \/ \E w \in ServerIds : WaitForServerReady(w)
  \/ ProvisionInitialServersDone
  \/ RunTest
  \/ EventLoopEmpty
  \/ \E k \in 0..MaxInterrupts : CleanupHub(k)
  \/ \E k \in 0..MaxInterrupts, id \in ServerIds : ShutdownServer(k, id)
  \/ \E k \in 0..MaxInterrupts : CleanupNetwork(k)
  \/ \E k \in 1..MaxInterrupts : SeleniumSigint(k)

\* ====================================================================
\* Part III: DigitalOceanManager called directly
\* ====================================================================

\* runCommandOnServer: if (!serverInfo || !serverInfo.ip) throw; otherwise the
\* ssh session is opened and the promise resolves with the output or rejects
RunCommandOnServerOutcomes(reg, id) ==
  IF id \notin DOMAIN reg \/ ~reg[id].ip
    THEN {"error"}
    ELSE {"resolved", "rejected"}

\* a caller invokes runCommandOnServer(id, command)
RunCommandOnServer(id) ==
  /\ spc = "provision" /\ ~sExited
  /\ \E o \in RunCommandOnServerOutcomes(servers, id) :
       lastCommand' = [id |-> id,
                       registered |-> id \in DOMAIN servers,
                       ip |-> id \in DOMAIN servers /\ servers[id].ip,
                       outcome |-> o]
  /\ UNCHANGED <<apiKey, spc, hubContainerId, servers, tasks, droplets, cleanups,
                 sInterrupts, sExited, sExitCode>>
  /\ UNCHANGED jvars

\* a caller invokes shutdownServer(id): deleteById returns or throws
ManagerShutdownServer(id) ==
  /\ spc = "provision" /\ ~sExited
  /\ \E ok \in DeleteByIdOutcomes(id) :
       /\ servers' = ServersAfterShutdown(servers, id, ok)
       /\ droplets' = IF ok THEN droplets \ {id} ELSE droplets
  /\ UNCHANGED <<lastCommand, apiKey, spc, hubContainerId, tasks, cleanups,
                 sInterrupts, sExited, sExitCode>>
  /\ UNCHANGED jvars

\* ====================================================================
\* Specifications
\* ====================================================================
vars == <<jvars, svars>>

\* the part that is not running stays in its initial state
SIdle == SInit /\ apiKey = TRUE
JIdle == JInit /\ cfg = [incrementStep |-> 1, maxParticipants |-> 2,
                         participantsPerNode |-> 1, autoCleanup |-> TRUE,
                         envOk |-> TRUE]

Init == JInit /\ SIdle

\* the JitsiLoadTestOrchestrator campaign
Spec == Init /\ [][Next]_vars

\* the SeleniumOrchestrator run
SeleniumInit == JIdle /\ SInit
SpecSelenium == SeleniumInit /\ [][SeleniumNext]_vars

\* the planning stage alone, over a wider range of positive targets and
\* capacities
PlanningConfigs ==
  [incrementStep : 1..3,
   maxParticipants : 1..12,
   participantsPerNode : 1..5,
   autoCleanup : {TRUE},
   envOk : BOOLEAN]

PlanningInit == cfg \in PlanningConfigs /\ JStart /\ SIdle

PlanningNext ==
  \/ Startup
  \/ CalculateInfrastructure

SpecPlanning == PlanningInit /\ [][PlanningNext]_vars

\* the campaign of 50, 100, 150, 200 participants at 80 per node: the three
\* initial nodes cover every load, so addNodes is never called
ScenarioConfig ==
  [incrementStep |-> 50, maxParticipants |-> 200, participantsPerNode |-> 80,
   autoCleanup |-> TRUE, envOk |-> TRUE]

ScenarioInit == cfg = ScenarioConfig /\ JStart /\ SIdle

ScenarioNext ==
  \/ Startup
  \/ CalculateInfrastructure
  \/ ProvisionHub
  \/ ProvisionNode
  \/ SetupHub
  \/ SetupNode
  \/ SetupTorture
  \/ LoopHead
  \/ RunSingleTest
  \/ GenerateFinalReport
  \/ Cleanup
  \/ \E k \in 1..MaxInterrupts : Sigint(k)
  \/ \E k \in 1..MaxInterrupts : SigintCleanup(k)

SpecScenario == ScenarioInit /\ [][ScenarioNext]_vars

\* a campaign whose single step needs two nodes more than the three initial
\* ones
ScalingConfig ==
  [incrementStep |-> 5, maxParticipants |-> 5, participantsPerNode |-> 1,
   autoCleanup |-> TRUE, envOk |-> TRUE]

ScalingInit == cfg = ScalingConfig /\ JStart /\ SIdle

SpecScaling == ScalingInit /\ [][Next]_vars

\* a campaign with a step the three initial nodes cover (2 participants) and
\* a step that adds a fourth node (4 participants)
NamingConfig ==
  [incrementStep |-> 2, maxParticipants |-> 4, participantsPerNode |-> 1,
   autoCleanup |-> TRUE, envOk |-> TRUE]

NamingInit == cfg = NamingConfig /\ JStart /\ SIdle

SpecNaming == NamingInit /\ [][Next]_vars

\* the provisioning stage of the SeleniumOrchestrator run alone.  Every
\* getById call settles and every 10 s timer fires, so a waitForServerReady
\* that can take a step eventually takes it.
ProvisioningNext ==
  \/ Construct
  \/ StartHub
  \/ \E w \in ServerIds : ProvisionServer(w)
  \/ \E w \in ServerIds : WaitForServerReady(w)
  \/ ProvisionInitialServersDone

SpecProvisioning ==
  /\ SeleniumInit
  /\ [][ProvisioningNext]_vars
  /\ \A w \in ServerIds : WF_vars(WaitForServerReady(w))

\* the manager under any interleaving of provisionServer, waitForServerReady,
\* shutdownServer and runCommandOnServer calls
ManagerNext ==
  \/ Construct
  \/ StartHub
  \/ \E w \in ServerIds : ProvisionServer(w)
  \/ \E w \in ServerIds : WaitForServerReady(w)
  \/ \E id \in ServerIds : ManagerShutdownServer(id)
  \/ \E id \in ServerIds : RunCommandOnServer(id)

SpecManager == SeleniumInit /\ [][ManagerNext]_vars

\* ====================================================================
\* Properties
\* ====================================================================
Range(s) == {s[i] : i \in 1..Len(s)}
Last(s) == s[Len(s)]

\* every cleanup() call of the campaign process
AllCleanups == {mc} \cup {handlers[k].c : k \in 1..MaxInterrupts}
\* names for which some cleanup() has issued a delete
AllIssued == UNION {Issued(c) : c \in AllCleanups}
\* the main flow is inside the testing loop
InLoop == pc \in {"loop", "addCreate", "addSetup", "test"}

\* C1: once a step with success = false is in the result log, no further
\* step is run or appended: only the last entry of the log can be a failed
\* one, every test that was run has its entry, and after a failed entry the
\* main flow has left the testing loop.
NoStepAfterFailure ==
  /\ Len(testsInvoked) = Len(testResults)
  /\ \A i \in 1..(Len(testResults) - 1) : testResults[i].success
  /\ (testResults # <<>> /\ ~Last(testResults).success) => ~InLoop

C1Witness ==
  /\ exited
  /\ Len(testResults) >= 2
  /\ ~Last(testResults).success

\* C2: the first recorded load is the configured increment, each later one
\* is the previous one plus the increment, and the sequence is strictly
\* increasing.
RequestedLoadsStrictlyIncreasing ==
  /\ testResults # <<>> => testResults[1].participants = cfg.incrementStep
  /\ \A i \in 1..(Len(testResults) - 1) :
       /\ testResults[i + 1].participants = testResults[i].participants + cfg.incrementStep
       /\ testResults[i + 1].participants > testResults[i].participants

\* C3: whenever a test run is invoked for load L the registry holds at least
\* ceil(L / participantsPerNode) workers, and scaling does not change the
\* load of the step it serves.
ScalingBeforeTest ==
  /\ pc = "test" => Len(nodes) >= CeilDiv(participants, cfg.participantsPerNode)
  /\ \A i \in 1..Len(testsInvoked) :
       testsInvoked[i].registered
         >= CeilDiv(testsInvoked[i].load, cfg.participantsPerNode)
  /\ pc \in {"addCreate", "addSetup", "test"}
       => participants = cfg.incrementStep * (Len(testResults) + 1)

C3Witness ==
  /\ testsInvoked # <<>>
  /\ addCount >= 1
  /\ Last(testsInvoked).registered = startIndex + addCount - 1
  /\ Last(testsInvoked).registered > InitialNodeCap
  /\ Last(testsInvoked).registered
       = CeilDiv(Last(testsInvoked).load, cfg.participantsPerNode)

\* C4: when the executor call of a step throws, the step is still recorded,
\* for the same load, with success = false and the error message among its
\* diagnostics; it is the last step, the loop is left and the error is not
\* the fatal error of the campaign.
ExecutorErrorRecorded ==
  /\ Len(testsInvoked) = Len(testResults)
  /\ \A i \in 1..Len(testsInvoked) :
       testsInvoked[i].threw =>
         /\ testResults[i].participants = testsInvoked[i].load
         /\ ~testResults[i].success
         /\ 0 \in Range(testResults[i].errors)
         /\ i = Len(testResults)
         /\ ~InLoop
         /\ fatal \in {"none", "report"}

C4Witness ==
  /\ testsInvoked # <<>>
  /\ Last(testsInvoked).threw
  /\ reportWritten
  /\ exited /\ exitCode = 0

\* a configuration with a positive increment and a positive capacity
SaneConfig == cfg.incrementStep > 0 /\ cfg.participantsPerNode > 0

\* C5: the result log is empty when the campaign aborts with a fatal
\* configuration or provisioning error (stated for the configurations with a
\* positive increment and capacity).
FatalOnlyBeforeResults ==
  (SaneConfig /\ fatal \in {"config", "provision", "setup"}) => testResults = <<>>

\* C6: a run that recorded at least one step ends with the report written
\* (stated for the configurations with a positive increment and capacity,
\* for runs that no interrupt cut short and in which the write of the report
\* did not itself fail).
ReportAlwaysProduced ==
  (SaneConfig /\ exited /\ interrupts = 0 /\ testResults # <<>> /\ fatal # "report")
    => reportWritten

\* C7: when the process exits after an interrupt, or after a fatal error
\* raised once provisioning had begun, a delete has been issued for the hub
\* and for every worker in the registry (stated for the configurations with
\* autoCleanup enabled).
CleanupCoversRegistryAtExit ==
  (exited /\ cfg.autoCleanup
     /\ (interrupts >= 1 \/ fatal \in {"provision", "setup", "report"}))
    => ({HubName} \cup Range(nodes)) \subseteq AllIssued

\* C8: a failed delete does not end cleanup(): no error escapes it, a
\* cleanup() that is no longer running has tried every droplet of its list,
\* and a campaign without fatal error still exits with code 0.
CleanupSurvivesDeleteFailure ==
  /\ \A c \in AllCleanups :
       /\ ~c.raised
       /\ CleanupRunning(c) \/ c.idx = Len(c.snap) + 1
  /\ (exited /\ fatal = "none" /\ cfg.envOk) => exitCode = 0

C8Witness ==
  /\ exited /\ exitCode = 0
  /\ interrupts = 0
  /\ CleanupComplete(mc)
  /\ Len(mc.snap) >= 3
  /\ mc.snap[1] \in cloud
  /\ mc.snap[3] \notin cloud

\* C9: a cleanup() that finds droplets already destroyed or never created
\* raises nothing and goes on to completion.
CleanupTwiceCompletes ==
  \A c \in AllCleanups :
    c.gone > 0 => /\ ~c.raised
                  /\ CleanupRunning(c) \/ CleanupComplete(c)

C9Witness ==
  \E k \in 1..MaxInterrupts :
    /\ exited /\ exitCode = 0
    /\ handlers[k].state = "done"
    /\ CleanupComplete(handlers[k].c)
    /\ Len(handlers[k].c.snap) >= 2
    /\ handlers[k].c.gone = Len(handlers[k].c.snap)
    /\ Issued(handlers[k].c) \subseteq Issued(mc)

\* C10: the test is invoked only when every initial worker has reported
\* ready; an initial worker that failed or timed out aborts the run.
TestOnlyWhenInitialUnitsReady ==
  spc = "runTest" => \A w \in ServerIds : tasks[w].st = "ready"

\* the waitForServerReady of initial worker w gave up after timeoutMs
TimedOut(w) == tasks[w].st = "failed" /\ ~WaitContinues(tasks[w].elapsed)

\* C11: when the provisioning of an initial worker has timed out, no test is
\* run, and a run that no interrupt cut short ends with a non-zero exit code
\* after the cleanup() of main() has completed.
InitialTimeoutAborts ==
  (\E w \in ServerIds : TimedOut(w)) =>
    /\ spc \notin {"runTest", "complete"}
    /\ (sExited /\ sInterrupts = 0) =>
         (sExitCode = 1 /\ cleanups[0].stage = "done")

\* n is the least integer with n * b >= a
IsCeiling(n, a, b) == n * b >= a /\ (n - 1) * b < a

\* C12: for a positive target and a positive capacity, the node count of the
\* plan is the least n with n * participantsPerNode >= maxParticipants, and
\* the node count computed for each load the loop visits is the least n with
\* n * participantsPerNode >= load.
PlannerComputesCeiling ==
  (cfg.maxParticipants > 0 /\ cfg.participantsPerNode > 0) =>
    /\ pc = "createHub" =>
         IsCeiling(requiredNodes, cfg.maxParticipants, cfg.participantsPerNode)
    /\ \A k \in 1..MaxSteps :
         LET load == k * cfg.incrementStep
         IN  (load > 0 /\ load <= cfg.maxParticipants) =>
               IsCeiling(StepRequiredNodes(load), load, cfg.participantsPerNode)

C12Witness ==
  /\ pc = "createHub"
  /\ cfg.maxParticipants = 11 /\ cfg.participantsPerNode = 4 /\ cfg.incrementStep = 3
  /\ requiredNodes = 3
  /\ StepRequiredNodes(9) = 3

\* C13: with a capacity per node that is not positive, the campaign never
\* gets past capacity planning: no node count is produced, nothing is
\* provisioned, and the process ends with a configuration error.
InvalidCapacityRejected ==
  cfg.participantsPerNode <= 0 =>
    /\ pc \in {"start", "calc", "exited"}
    /\ pc = "exited" => fatal = "config"
    /\ cloud = {}

\* the loads of the recorded steps that succeeded
Succeeded == SuccessfulLoads(testResults)

BreakingPointIsFirstFailure ==
  reportWritten =>
    LET failed == {i \in 1..Len(testResults) : ~testResults[i].success}
    IN  /\ report.breakingPoint.present <=> failed # {}
        /\ \A i \in failed :
             (\A j \in failed : i <= j)
               => report.breakingPoint.value = testResults[i].participants

C15Witness ==
  /\ reportWritten
  /\ Len(testResults) >= 2
  /\ testResults[1].success
  /\ report.breakingPoint = Some(Last(testResults).participants)

\* C16: in a report written for an empty result log successRate is not the
\* outcome of the division 0 / 0; for a non-empty log it is the percentage of
\* succeeded steps, rounded to one decimal (stated for the configurations
\* with a positive increment and capacity).
SuccessRateNeverDividesByZero ==
  (SaneConfig /\ reportWritten) =>
    IF testResults = <<>>
      THEN ~report.successRate.nan
      ELSE /\ ~report.successRate.nan
           /\ 2 * Len(testResults) * report.successRate.tenths
                 <= 2000 * Cardinality({i \in 1..Len(testResults) : testResults[i].success})
                      + Len(testResults)
           /\ 2 * Len(testResults) * report.successRate.tenths
                 > 2000 * Cardinality({i \in 1..Len(testResults) : testResults[i].success})
                     - Len(testResults)

\* r is the integer part of 0.8 * m
IsFloorOfFourFifths(r, m) == 5 * r <= 4 * m /\ 4 * m < 5 * r + 5

EstimatedCostFormula ==
  reportWritten =>
    LET total == TotalDuration(testResults)
        units == Len(nodes) + 1
    IN  /\ report.estimatedCost.rateMilli = RateMilli
        /\ total >= MsPerHour => report.estimatedCost.nodeMs = units * total
        /\ total < MsPerHour => report.estimatedCost.nodeMs = units * MsPerHour

C18Witness ==
  /\ reportWritten
  /\ Len(nodes) >= 2
  /\ TotalDuration(testResults) > MsPerHour
  /\ report.estimatedCost.nodeMs > (Len(nodes) + 1) * MsPerHour

\* C19: generating the report leaves the result log and the worker registry
\* as they were, so the written report is the one that generating it again
\* from them yields.
ReportGenerationRepeatable ==
  /\ Len(testsInvoked) = Len(testResults)
  /\ reportWritten =>
       /\ report.detailedResults = testResults
       /\ report.nodes = nodes
       /\ report = FinalReport(testResults, nodes)

C19Witness ==
  /\ reportWritten
  /\ exited
  /\ Len(testResults) >= 2
  /\ Len(nodes) >= 2

\* C20: with increment 50, maximum 200 and 80 participants per node the
\* loads 50, 100, 150, 200 need 1, 2, 2, 3 nodes and the registry is never
\* extended; when the third step (load 150) fails, it is the last recorded
\* step and the report has breakingPoint 150, maxSuccessfulParticipants 100
\* and recommendedCapacity 80.
ScenarioOutcome ==
  /\ StepRequiredNodes(50) = 1 /\ StepRequiredNodes(100) = 2
  /\ StepRequiredNodes(150) = 2 /\ StepRequiredNodes(200) = 3
  /\ pc \notin {"addCreate", "addSetup"}
  /\ \A i \in 1..Len(testResults) : testResults[i].participants = 50 * i
  /\ (Len(testResults) >= 3 /\ ~testResults[3].success) =>
       /\ Len(testResults) = 3
       /\ testResults[1].success /\ testResults[2].success
       /\ pc # "test"
       /\ reportWritten =>
            /\ report.breakingPoint = Some(150)
            /\ report.maxSuccessfulParticipants = Some(100)
            /\ report.recommendedCapacity = Some(80)

C20Witness ==
  /\ reportWritten
  /\ exited /\ exitCode = 0
  /\ Len(testResults) = 3
  /\ ~testResults[3].success
  /\ report.breakingPoint = Some(150)

\* every recorded step succeeded
AllSucceeded == \A i \in 1..Len(testResults) : testResults[i].success

\* C21: when the report is written after a campaign in which every step
\* succeeded, floor(maxParticipants / incrementStep) steps are recorded (4
\* for 200 and 50), the last one at the largest multiple of the increment
\* that does not exceed the maximum (200), breakingPoint is null and
\* maxSuccessfulParticipants is that last load.
AllStepsSucceedOutcome ==
  (reportWritten /\ AllSucceeded) =>
    /\ Len(testResults) = cfg.maxParticipants \div cfg.incrementStep
    /\ Len(testResults) = 4
    /\ Last(testResults).participants = 200
    /\ Last(testResults).participants + cfg.incrementStep > cfg.maxParticipants
    /\ report.breakingPoint = Null
    /\ report.maxSuccessfulParticipants = Some(200)

C21Witness ==
  /\ reportWritten
  /\ exited /\ exitCode = 0
  /\ AllSucceeded
  /\ Len(testResults) = 4
  /\ report.maxSuccessfulParticipants = Some(200)

\* C22: the process exits with code 0 only after the report was written and
\* without a fatal error, and a run with a fatal error exits with a non-zero
\* code.
ExitCodeReflectsOutcome ==
  /\ (exited /\ exitCode = 0) => (reportWritten /\ fatal = "none")
  /\ (exited /\ fatal # "none") => exitCode # 0

WaitOutcomeSound(w) ==
  /\ tasks[w].st = "poll" => WaitContinues(tasks[w].elapsed)
  /\ tasks[w].st = "ready" =>
       /\ WaitContinues(tasks[w].elapsed)
       /\ w \in DOMAIN servers => (servers[w].ip /\ servers[w].status = "active")
  /\ (tasks[w].st = "failed" /\ tasks[w].elapsed > 0) => tasks[w].elapsed = TimeoutMs

\* C24: a waitForServerReady call that is polling eventually returns or
\* fails; it returns only on an active answer, before the timeout, and it
\* fails only once the timeout has elapsed: a poll that errs or finds the
\* droplet not yet active is followed by another poll one interval later.
WaitForServerReadyTerminates ==
  /\ [](\A w \in ServerIds : WaitOutcomeSound(w))
  /\ \A w \in ServerIds :
       (tasks[w].st = "poll") ~> (tasks[w].st \in {"ready", "failed"})

C24Witness ==
  /\ tasks[1].st = "failed" /\ tasks[1].elapsed = TimeoutMs
  /\ tasks[2].st = "ready" /\ tasks[2].elapsed >= PollIntervalMs
  /\ servers[2].status = "active"

\* C25: the report generator is invoked, and the campaign completes without
\* fatal error, only with a non-empty result log (stated for the
\* configurations with a positive increment and capacity).
CompletedHasResult ==
  SaneConfig =>
    /\ pc = "report" => testResults # <<>>
    /\ (reportWritten /\ fatal = "none") => testResults # <<>>

\* C26: every recorded step has at most 5 diagnostics; a step whose executor
\* call threw has exactly one.
DiagnosticsCapped ==
  /\ Len(testsInvoked) = Len(testResults)
  /\ \A i \in 1..Len(testResults) :
       /\ Len(testResults[i].errors) <= 5
       /\ testsInvoked[i].threw => Len(testResults[i].errors) = 1

C26Witness ==
  /\ testResults # <<>>
  /\ ~Last(testResults).success
  /\ ~Last(testsInvoked).threw
  /\ Len(Last(testResults).errors) = 5

\* C27: the testing loop terminates because the distance from the load to
\* the maximum, which ends the loop once it is negative, shrinks with every
\* step that succeeded (stated for the configurations with a positive
\* capacity, whatever the increment).
LoopApproachesMaximum ==
  [][(cfg.participantsPerNode > 0 /\ pc = "test" /\ pc' = "loop")
       => (cfg.maxParticipants - participants' < cfg.maxParticipants - participants)]_vars

\* C28: when the process has exited after an interrupt, a delete has been
\* issued for every droplet that exists (stated for the configurations with
\* autoCleanup enabled).
NoLeakOnInterrupt ==
  (exited /\ cfg.autoCleanup /\ \E k \in 1..MaxInterrupts : handlers[k].state = "done")
    => cloud \subseteq AllIssued

\* C29: a recorded step with success = true has no diagnostics, whatever the
\* executor handed back: also for an output that has "BUILD SUCCESS" together
\* with lines matching ERROR or FAILED.
SuccessHasNoDiagnostics ==
  /\ \A i \in 1..Len(testResults) :
       testResults[i].success => testResults[i].errors = <<>>
  /\ pc = "test" =>
       \A o \in ExecOutcomes :
         SingleTestResult(participants, o).success
           => SingleTestResult(participants, o).errors = <<>>

C29Witness ==
  /\ Len(testResults) >= 2
  /\ testResults[1].success
  /\ ~testResults[2].success /\ testResults[2].errors # <<>>
  /\ \E o \in ExecOutcomes :
       o.errLines > 0 /\ SingleTestResult(testResults[1].participants, o) = testResults[1]

\* C30: at every test invocation currentNodes equals the size of the
\* registry; the registry never shrinks while the loop runs; and a scaling
\* action for load L starts from a registry of currentNodes workers and adds
\* exactly ceil(L / participantsPerNode) - currentNodes of them.
CapacityAccounting ==
  /\ pc = "test" => currentNodes = Len(nodes)
  /\ \A i \in 1..Len(testsInvoked) :
       /\ i < Len(testsInvoked) => testsInvoked[i].registered <= testsInvoked[i + 1].registered
       /\ testsInvoked[i].registered <= Len(nodes)
  /\ pc \in {"addCreate", "addSetup"} =>
       /\ currentNodes = startIndex - 1
       /\ addCount = StepRequiredNodes(participants) - currentNodes
       /\ addCount >= 1
       /\ Len(nodes) <= currentNodes + addCount
  /\ (pc = "test" /\ addCount > 0 /\ startIndex + addCount - 1 = Len(nodes)) =>
       Len(nodes) >= StepRequiredNodes(participants)

C30Witness ==
  /\ pc = "test"
  /\ startIndex = 4 /\ addCount = 2
  /\ currentNodes = 5
  /\ Len(nodes) = 5
  /\ StepRequiredNodes(participants) = 5

\* C31: after any sequence of initial provisioning and scaling, the names in
\* the worker registry are pairwise distinct and are exactly jitsi-node-1 ..
\* jitsi-node-n for a registry of n units, so every cleanup() call addresses
\* each unit of its snapshot exactly once.
RegistryNamesDense ==
  /\ nodes = [i \in 1..Len(nodes) |-> i]
  /\ \A i, j \in 1..Len(nodes) : nodes[i] = nodes[j] => i = j
  /\ \A c \in AllCleanups :
       \A i, j \in 1..Len(c.snap) : c.snap[i] = c.snap[j] => i = j

\* a cleanup() has gone through a registry built by initial provisioning
\* (three units) and one scaling call (a fourth)
C31Witness ==
  /\ cfg = NamingConfig
  /\ Len(nodes) = 4
  /\ startIndex = 4 /\ addCount = 1
  /\ Len(testResults) = 2
  /\ CleanupComplete(mc)
  /\ Len(mc.snap) = 5

\* C32: in the DigitalOceanManager registry, under any interleaving of
\* provisionServer, waitForServerReady and shutdownServer calls, an entry has
\* status "active" if and only if its address is non-empty; an entry is
\* "creating" with an empty address until its waitForServerReady has seen the
\* droplet ready; and a runCommandOnServer call for an id that is not
\* registered or has no address fails with an error.
RegistryStatusMatchesAddress ==
  /\ \A id \in DOMAIN servers :
       /\ servers[id].status \in {"creating", "active"}
       /\ (servers[id].status = "active") <=> servers[id].ip
       /\ tasks[id].st # "ready" =>
            servers[id] = [ip |-> FALSE, status |-> "creating"]
  /\ (lastCommand.outcome # "none" /\ ~(lastCommand.registered /\ lastCommand.ip))
       => lastCommand.outcome = "error"

\* one unit is active with an address while the other was shut down before
\* its readiness was seen, and a command for the removed unit has failed
C32Witness ==
  /\ 1 \in DOMAIN servers /\ servers[1] = [ip |-> TRUE, status |-> "active"]
  /\ 2 \notin DOMAIN servers /\ tasks[2].st = "ready"
  /\ lastCommand = [id |-> 2, registered |-> FALSE, ip |-> FALSE, outcome |-> "error"]

\* C33: shutdownServer removes a unit from the registry only when its delete
\* call succeeded and leaves the registry unchanged when it failed, so when
\* cleanupAllServers returns the registry holds exactly the units whose
\* deletion failed.
CleanupLeavesFailedUnits ==
  [][\A k \in 0..MaxInterrupts :
       (cleanups[k].stage = "servers" /\ cleanups'[k].stage = "network")
         => DOMAIN servers' = cleanups'[k].failed]_vars
====
